---- MODULE Spec2Model ----
(***************************************************************************)
(* Membership progression and aggregate consistency.                       *)
(*                                                                         *)
(* The database part follows supabase/schema.sql (tables, unique indexes,  *)
(* views, trigger functions); the client part follows the usePipeliners    *)
(* hook (promotePipelinerToMember, createPipeliner, updatePipeliner) and   *)
(* PromoteToPipelinerDialog.handleConfirm.                                 *)
(***************************************************************************)
EXTENDS Integers, FiniteSets, Sequences, TLC

\* ------------------------------------------------------------------ bounds
MaxMeetings == 4
MaxPipeliners == 2
MaxMembers == 2
MaxRows == 3

\* ------------------------------------------------------- program constants
\* the literal 3 of refresh_pipeliner_eligibility and of both views
BUSINESS_MEETING_TARGET == 3
\* the literal 1 of refresh_pipeliner_eligibility and of both views
CHARITY_EVENT_TARGET == 1
\* guest_meetings_count integer not null default 3
DefaultGuestMeetingsCount == 3

\* SQL NULL, JS null/undefined and the empty string of a form field
Null == 0

MeetingIds == 1..MaxMeetings
GuestIds == {1, 2}
PipelinerIds == 1..MaxPipeliners
MemberIds == 1..MaxMembers
EventIds == {1}
Callers == {1, 2}
\* e-mail addresses and member numbers are opaque non-null tokens
Emails == {1, 2}
MemberNumbers == {1, 2}
\* check (status in ('present', 'apology', 'absent'))
AttendanceStatus == {"present", "apology", "absent"}
\* the statuses the modelled callers submit
StatusInputs == {"present", "apology"}

VARIABLES
    meetings,        \* public.meetings: the ids of the rows
    attendance,      \* public.attendance: a set of rows
    guests,          \* public.guests: id -> row
    guest_events,    \* public.guest_events: guest id -> number of rows
    pipeliners,      \* public.pipeliners: id -> row (status "absent": no row)
    members,         \* public.members: id -> row (status "absent": no row)
    charity_events,  \* public.charity_events: id -> row
    cache,           \* usePipeliners state.pipeliners of each caller
    gsel,            \* the guest prop of each caller's PromoteToPipelinerDialog
    promotingId,     \* usePipeliners state.promotingId of each caller
    call,            \* the asynchronous operation each caller is executing
    result,          \* the operation that ended last: whose, which, how
    tx               \* the open attendance transaction of each caller

dbvars == <<meetings, attendance, guests, guest_events, pipeliners, members, charity_events>>
clientvars == <<cache, gsel, promotingId, call, result>>
vars == <<meetings, attendance, guests, guest_events, pipeliners, members, charity_events,
          cache, gsel, promotingId, call, result, tx>>

Max(a, b) == IF a >= b THEN a ELSE b

\* ------------------------------------------------------------------ rows
NoPipeliner ==
    [status |-> "absent", email |-> Null, guest_meetings_count |-> 0,
     business_meetings_count |-> 0, charity_events_count |-> 0,
     is_eligible_for_membership |-> FALSE, from_guest |-> Null]

NoMember ==
    [status |-> "absent", email |-> Null, member_number |-> Null, from_pipeliner |-> Null]

NoEvent == [exists |-> FALSE, participant_ids |-> {}]

AttendanceRow(m, mem, g, p, s) ==
    [meeting_id |-> m, member_id |-> mem, guest_id |-> g, pipeliner_id |-> p, status |-> s]

ExistingPipeliners(ps) == {p \in PipelinerIds : ps[p].status # "absent"}
ExistingMembers(ms) == {m \in MemberIds : ms[m].status # "absent"}

\* --------------------------------------------------- unique indexes, keys
\* attendance_meeting_member_key, attendance_meeting_guest_key,
\* attendance_meeting_pipeliner_key: partial unique indexes
AttendanceUnique(att) ==
    \A r1, r2 \in att :
        r1 # r2 /\ r1.meeting_id = r2.meeting_id =>
            /\ ~(r1.member_id # Null /\ r1.member_id = r2.member_id)
            /\ ~(r1.guest_id # Null /\ r1.guest_id = r2.guest_id)
            /\ ~(r1.pipeliner_id # Null /\ r1.pipeliner_id = r2.pipeliner_id)

\* the foreign keys of public.attendance
AttendanceRefsOk(r, ms, ps) ==
    /\ r.meeting_id \in ms
    /\ r.member_id = Null \/ r.member_id \in MemberIds
    /\ r.guest_id = Null \/ r.guest_id \in GuestIds
    /\ r.pipeliner_id = Null \/ r.pipeliner_id \in ExistingPipeliners(ps)

\* ------------------------------------------------------ trigger functions
\* SQL's a <> b: NULL (not true) as soon as one side is NULL
SqlNe(a, b) == a # Null /\ b # Null /\ a # b

GuestPresentCount(att, g) ==
    Cardinality({r \in att : r.guest_id = g /\ r.status = "present"})

PipelinerPresentCount(att, p) ==
    Cardinality({r \in att : r.pipeliner_id = p /\ r.status = "present"})

\* charity_events whose participant_ids @> array[p]
PipelinerCharityCount(evs, p) ==
    Cardinality({e \in EventIds : evs[e].exists /\ p \in evs[e].participant_ids})

\* refresh_guest_meeting_count that adds the count to the stored total
refresh_guest_meeting_count_additive(att, gs, g) ==
    [gs EXCEPT ![g].total_meetings = gs[g].total_meetings + GuestPresentCount(att, g)]

refresh_guest_meeting_count(att, gs, g) ==
    IF g \in GuestIds
    THEN [gs EXCEPT ![g].total_meetings = GuestPresentCount(att, g)]
    ELSE gs

EligibleFromCounts(mc, cc) ==
    mc >= BUSINESS_MEETING_TARGET /\ cc >= CHARITY_EVENT_TARGET

refresh_pipeliner_eligibility(att, evs, ps, p) ==
    IF p \in ExistingPipeliners(ps)
    THEN [ps EXCEPT
            ![p].business_meetings_count = PipelinerPresentCount(att, p),
            ![p].charity_events_count = PipelinerCharityCount(evs, p),
            ![p].is_eligible_for_membership =
                EligibleFromCounts(PipelinerPresentCount(att, p),
                                   PipelinerCharityCount(evs, p))]
    ELSE ps

RECURSIVE RefreshGuests(_, _, _)
RefreshGuests(att, gs, ids) ==
    IF ids = {} THEN gs
    ELSE LET g == CHOOSE x \in ids : TRUE
         IN RefreshGuests(att, refresh_guest_meeting_count(att, gs, g), ids \ {g})

RECURSIVE RefreshPipeliners(_, _, _, _)
RefreshPipeliners(att, evs, ps, ids) ==
    IF ids = {} THEN ps
    ELSE LET p == CHOOSE x \in ids : TRUE
         IN RefreshPipeliners(att, evs, refresh_pipeliner_eligibility(att, evs, ps, p),
                              ids \ {p})

\* update_guest_meeting_count: the guests the row trigger refreshes
GuestsToRefresh(op, old, new) ==
    CASE op = "INSERT" -> IF new.guest_id # Null THEN {new.guest_id} ELSE {}
      [] op = "UPDATE" ->
            (IF new.guest_id # Null THEN {new.guest_id} ELSE {})
            \cup (IF old.guest_id # Null /\ SqlNe(old.guest_id, new.guest_id)
                  THEN {old.guest_id} ELSE {})
      [] op = "DELETE" -> IF old.guest_id # Null THEN {old.guest_id} ELSE {}

\* update_pipeliner_eligibility: the pipeliners the row trigger refreshes
PipelinersToRefresh(op, old, new) ==
    CASE op = "INSERT" -> IF new.pipeliner_id # Null THEN {new.pipeliner_id} ELSE {}
      [] op = "UPDATE" ->
            (IF new.pipeliner_id # Null THEN {new.pipeliner_id} ELSE {})
            \cup (IF old.pipeliner_id # Null /\ SqlNe(old.pipeliner_id, new.pipeliner_id)
                  THEN {old.pipeliner_id} ELSE {})
      [] op = "DELETE" -> IF old.pipeliner_id # Null THEN {old.pipeliner_id} ELSE {}

\* CharityToRefresh that forgets the participants an UPDATE removed
CharityToRefreshNewOnly(op, old, new) ==
    CASE op = "INSERT" -> new
      [] op = "UPDATE" -> new
      [] op = "DELETE" -> old

\* CharityToRefresh that refreshes every pipeliner on any charity write
CharityToRefreshAll(op, old, new) == PipelinerIds

\* update_pipeliner_eligibility_from_charity: the ids the row trigger refreshes
CharityToRefresh(op, old, new) ==
    CASE op = "INSERT" -> new
      [] op = "UPDATE" -> old \cup new
      [] op = "DELETE" -> old

\* ------------------------------------------------------------- views
\* guest_meeting_counts
GuestView(g) ==
    LET rows == {r \in attendance : r.guest_id = g}
        present == Cardinality({r \in rows : r.status = "present"})
    IN [id |-> g,
        status |-> guests[g].status,
        email |-> guests[g].email,
        total_meetings |-> guests[g].total_meetings,
        meeting_count |-> Cardinality(rows),
        present_count |-> present,
        event_count |-> guest_events[g],
        eligible_for_pipeliner |-> (present >= 3 /\ guest_events[g] >= 1)]

\* pipeliner_eligibility: the stored columns and the computed ones
PipelinerViewOf(att, evs, ps, p) ==
    LET mc == PipelinerPresentCount(att, p)
        cc == PipelinerCharityCount(evs, p)
    IN [id |-> p,
        status |-> ps[p].status,
        email |-> ps[p].email,
        business_meetings_count |-> ps[p].business_meetings_count,
        charity_events_count |-> ps[p].charity_events_count,
        is_eligible_for_membership |-> ps[p].is_eligible_for_membership,
        meeting_count |-> mc,
        charity_event_count |-> cc,
        meets_requirements |-> (mc >= 3 /\ cc >= 1)]

PipelinerView(p) == PipelinerViewOf(attendance, charity_events, pipeliners, p)

NoView ==
    [id |-> Null, status |-> "absent", email |-> Null, business_meetings_count |-> 0,
     charity_events_count |-> 0, is_eligible_for_membership |-> FALSE,
     meeting_count |-> 0, charity_event_count |-> 0, meets_requirements |-> FALSE]

NoGuestView ==
    [id |-> Null, status |-> "absent", email |-> Null, total_meetings |-> 0,
     meeting_count |-> 0, present_count |-> 0, event_count |-> 0,
     eligible_for_pipeliner |-> FALSE]

NoCall ==
    [op |-> "idle", pc |-> "idle", id |-> Null, member_number |-> Null,
     join_date |-> Null, pipeliner |-> NoView, guest |-> NoGuestView, sponsor |-> Null, inserted |-> Null]

\* no requirement named in an error message
NoMissing == [business |-> 0, charity |-> 0]

Outcome(c, op, id, outcome, error) ==
    [caller |-> c, op |-> op, id |-> id, outcome |-> outcome, error |-> error,
     missing |-> NoMissing]

NoResult == Outcome(Null, "none", Null, "none", "none")
NoTx ==
    [pc |-> "idle", row |-> AttendanceRow(Null, Null, Null, Null, "absent"),
     meeting_count |-> 0, charity_event_count |-> 0]

\* ------------------------------------------------------- ledger statements
\* One statement on public.attendance with its two AFTER ROW triggers, run
\* to completion (one caller at a time).
ClientUnchanged == UNCHANGED <<cache, gsel, promotingId, call, result, tx>>

InsertAttendance(m, mem, g, p, s) ==
    LET new == AttendanceRow(m, mem, g, p, s)
        att == attendance \cup {new}
    IN /\ Cardinality(attendance) < MaxRows
       /\ new \notin attendance
       /\ AttendanceRefsOk(new, meetings, pipeliners)
       /\ AttendanceUnique(att)
       /\ attendance' = att
       /\ guests' = RefreshGuests(att, guests, GuestsToRefresh("INSERT", new, new))
       /\ pipeliners' = RefreshPipeliners(att, charity_events, pipeliners,
                                          PipelinersToRefresh("INSERT", new, new))
       /\ UNCHANGED <<meetings, guest_events, members, charity_events>>
       /\ ClientUnchanged

UpdateAttendance(old, mem, g, p, s) ==
    LET new == AttendanceRow(old.meeting_id, mem, g, p, s)
        att == (attendance \ {old}) \cup {new}
    IN /\ old \in attendance
       /\ new # old
       /\ new \notin attendance
       /\ AttendanceRefsOk(new, meetings, pipeliners)
       /\ AttendanceUnique(att)
       /\ attendance' = att
       /\ guests' = RefreshGuests(att, guests, GuestsToRefresh("UPDATE", old, new))
       /\ pipeliners' = RefreshPipeliners(att, charity_events, pipeliners,
                                          PipelinersToRefresh("UPDATE", old, new))
       /\ UNCHANGED <<meetings, guest_events, members, charity_events>>
       /\ ClientUnchanged

DeleteAttendance(old) ==
    LET att == attendance \ {old}
    IN /\ old \in attendance
       /\ attendance' = att
       /\ guests' = RefreshGuests(att, guests, GuestsToRefresh("DELETE", old, old))
       /\ pipeliners' = RefreshPipeliners(att, charity_events, pipeliners,
                                          PipelinersToRefresh("DELETE", old, old))
       /\ UNCHANGED <<meetings, guest_events, members, charity_events>>
       /\ ClientUnchanged

\* DeleteMeeting with a cascade that fires no row trigger
DeleteMeetingNoTriggers(m) ==
    /\ m \in meetings
    /\ meetings' = meetings \ {m}
    /\ attendance' = {r \in attendance : r.meeting_id # m}
    /\ UNCHANGED <<guests, pipeliners, guest_events, members, charity_events>>
    /\ ClientUnchanged

\* deleteMeeting: the delete cascades to the meeting's attendance rows, and
\* the row triggers run for every deleted row
DeleteMeeting(m) ==
    LET gone == {r \in attendance : r.meeting_id = m}
        att == attendance \ gone
    IN /\ m \in meetings
       /\ meetings' = meetings \ {m}
       /\ attendance' = att
       /\ guests' = RefreshGuests(att, guests,
              UNION {GuestsToRefresh("DELETE", r, r) : r \in gone})
       /\ pipeliners' = RefreshPipeliners(att, charity_events, pipeliners,
              UNION {PipelinersToRefresh("DELETE", r, r) : r \in gone})
       /\ UNCHANGED <<guest_events, members, charity_events>>
       /\ ClientUnchanged

\* One statement on public.charity_events with its AFTER ROW trigger.
InsertCharityEvent(e, ids) ==
    LET evs == [charity_events EXCEPT ![e] = [exists |-> TRUE, participant_ids |-> ids]]
    IN /\ ~charity_events[e].exists
       /\ charity_events' = evs
       /\ pipeliners' = RefreshPipeliners(attendance, evs, pipeliners,
                                          CharityToRefresh("INSERT", {}, ids))
       /\ UNCHANGED <<meetings, attendance, guests, guest_events, members>>
       /\ ClientUnchanged

UpdateCharityEvent(e, ids) ==
    LET evs == [charity_events EXCEPT ![e].participant_ids = ids]
    IN /\ charity_events[e].exists
       /\ ids # charity_events[e].participant_ids
       /\ charity_events' = evs
       /\ pipeliners' = RefreshPipeliners(attendance, evs, pipeliners,
              CharityToRefresh("UPDATE", charity_events[e].participant_ids, ids))
       /\ UNCHANGED <<meetings, attendance, guests, guest_events, members>>
       /\ ClientUnchanged

DeleteCharityEvent(e) ==
    LET evs == [charity_events EXCEPT ![e] = NoEvent]
    IN /\ charity_events[e].exists
       /\ charity_events' = evs
       /\ pipeliners' = RefreshPipeliners(attendance, evs, pipeliners,
              CharityToRefresh("DELETE", charity_events[e].participant_ids, {}))
       /\ UNCHANGED <<meetings, attendance, guests, guest_events, members>>
       /\ ClientUnchanged

\* the subject columns of a row that names exactly one subject
OneSubject ==
    {<<Null, g, Null>> : g \in GuestIds} \cup {<<Null, Null, p>> : p \in PipelinerIds}

AttendanceStep ==
    \/ \E m \in MeetingIds, sub \in OneSubject, s \in StatusInputs :
           InsertAttendance(m, sub[1], sub[2], sub[3], s)
    \/ \E old \in attendance, sub \in OneSubject, s \in StatusInputs :
           UpdateAttendance(old, sub[1], sub[2], sub[3], s)
    \/ \E old \in attendance : DeleteAttendance(old)
    \/ \E m \in MeetingIds : DeleteMeeting(m)

CharityStep ==
    \/ \E e \in EventIds, ids \in SUBSET ExistingPipeliners(pipeliners) :
           InsertCharityEvent(e, ids)
    \/ \E e \in EventIds, ids \in SUBSET ExistingPipeliners(pipeliners) :
           UpdateCharityEvent(e, ids)
    \/ \E e \in EventIds : DeleteCharityEvent(e)

\* ================================================== the usePipeliners hook
\* @/lib/pipelinerEligibility
getPipelinerBusinessMeetingCount(pipeliner) == pipeliner.business_meetings_count
getPipelinerCharityEventCount(pipeliner) == pipeliner.charity_events_count
hasMetMembershipRequirements(pipeliner) ==
    /\ getPipelinerBusinessMeetingCount(pipeliner) >= BUSINESS_MEETING_TARGET
    /\ getPipelinerCharityEventCount(pipeliner) >= CHARITY_EVENT_TARGET

\* fetchPipeliners: select * from pipeliner_eligibility, meets_requirements
\* recomputed on the client
FetchedFrom(att, evs, ps) ==
    [p \in PipelinerIds |->
        IF ps[p].status = "absent" THEN NoView
        ELSE LET row == PipelinerViewOf(att, evs, ps, p)
             IN [row EXCEPT !.meets_requirements = hasMetMembershipRequirements(row)]]

FetchedPipeliners == FetchedFrom(attendance, charity_events, pipeliners)

\* Math.min
Min(a, b) == IF a <= b THEN a ELSE b

\* meetsRequirements of promotePipelinerToMember
meetsRequirements(pipeliner) ==
    \/ hasMetMembershipRequirements(pipeliner)
    \/ pipeliner.is_eligible_for_membership = TRUE

\* PromoteToMemberDialog: eligible
PromoteDialogEligible(pipeliner) ==
    IF pipeliner.status = "absent" THEN FALSE
    ELSE IF pipeliner.status = "became_member" THEN FALSE
    ELSE \/ hasMetMembershipRequirements(pipeliner)
         \/ pipeliner.is_eligible_for_membership

\* PipelinerAttendanceItem: eligible
AttendanceItemEligible(pipeliner) ==
    LET businessProgress == Min(pipeliner.business_meetings_count, 3)
        charityProgress == Min(pipeliner.charity_event_count, 1)
    IN \/ pipeliner.meets_requirements
       \/ businessProgress >= 3
       \/ charityProgress >= 1

\* the realtime subscription, the mount effect and refresh()
fetchPipeliners(c) ==
    /\ cache' = [cache EXCEPT ![c] = FetchedPipeliners]
    /\ cache'[c] # cache[c]
    /\ UNCHANGED <<meetings, attendance, guests, guest_events, pipeliners, members,
                   charity_events, gsel, promotingId, call, result, tx>>

\* the smallest id no row of the table uses (uuid_generate_v4 never collides)
FreeIds(used, all) == all \ used
NewId(used, all) == CHOOSE i \in FreeIds(used, all) : \A j \in FreeIds(used, all) : i <= j

\* members.email and members.member_number are unique
MemberUnique(ms, email, number) ==
    \A m \in ExistingMembers(ms) :
        /\ ms[m].email # email
        /\ number = Null \/ ms[m].member_number # number

\* --------------------------------------------- promotePipelinerToMember
\* a member number made of white space only
Blank == -2

\* String.prototype.trim on a member number
trim(member_number) == IF member_number = Blank THEN Null ELSE member_number

\* PromoteRejection without the e-mail check
PromoteRejectionNoEmailCheck(pipeliner, member_number, join_date) ==
    CASE pipeliner.status = "absent" -> "not_found"
      [] pipeliner.status # "absent" /\ ~meetsRequirements(pipeliner) -> "not_eligible"
      [] OTHER ->
             IF trim(member_number) = Null THEN "member_number"
             ELSE IF join_date = Null THEN "join_date"
             ELSE "none"

\* The checks made before the first supabase call; "none" when all pass.
PromoteRejection(pipeliner, member_number, join_date) ==
    CASE pipeliner.status = "absent" -> "not_found"
      [] pipeliner.status # "absent" /\ ~meetsRequirements(pipeliner) -> "not_eligible"
      [] OTHER ->
             IF trim(member_number) = Null THEN "member_number"
             ELSE IF join_date = Null THEN "join_date"
             ELSE IF pipeliner.email = Null THEN "email"
             ELSE "none"

\* MissingRequirements that never asks for charity events
MissingRequirementsBusinessOnly(pipeliner) ==
    LET businessMeetingsCompleted == getPipelinerBusinessMeetingCount(pipeliner)
    IN [business |-> IF businessMeetingsCompleted < BUSINESS_MEETING_TARGET
                     THEN BUSINESS_MEETING_TARGET - businessMeetingsCompleted ELSE 0,
        charity |-> 0]

\* missingBusiness and missingCharity of the "Pipeliner still needs ..." error;
\* 0 stands for null, and both null give the generic message
MissingRequirements(pipeliner) ==
    LET businessMeetingsCompleted == getPipelinerBusinessMeetingCount(pipeliner)
        charityEventsCompleted == getPipelinerCharityEventCount(pipeliner)
    IN [business |-> IF businessMeetingsCompleted < BUSINESS_MEETING_TARGET
                     THEN BUSINESS_MEETING_TARGET - businessMeetingsCompleted ELSE 0,
        charity |-> IF charityEventsCompleted < CHARITY_EVENT_TARGET
                    THEN CHARITY_EVENT_TARGET - charityEventsCompleted ELSE 0]

\* the call up to setPartialState({ promotingId }): it throws, or it goes on
\* to the member insert with the pipeliner it found in state.pipeliners
PromoteStart(c, pid, member_number, join_date) ==
    LET pipeliner == cache[c][pid]
        rejection == PromoteRejection(pipeliner, member_number, join_date)
    IN /\ call[c].op = "idle"
       /\ IF rejection # "none"
          THEN /\ result' = [Outcome(c, "promoteMember", pid, "rejected", rejection)
                                EXCEPT !.missing = IF rejection = "not_eligible"
                                                   THEN MissingRequirements(pipeliner)
                                                   ELSE NoMissing]
               /\ UNCHANGED <<call, promotingId>>
          ELSE /\ promotingId' = [promotingId EXCEPT ![c] = pid]
               /\ call' = [call EXCEPT ![c] =
                              [NoCall EXCEPT !.op = "promoteMember", !.pc = "insert",
                                             !.id = pid, !.member_number = member_number,
                                             !.join_date = join_date,
                                             !.pipeliner = pipeliner]]
               /\ UNCHANGED result
       /\ UNCHANGED <<meetings, attendance, guests, guest_events, pipeliners, members,
                      charity_events, cache, gsel, tx>>

\* catch + finally of promotePipelinerToMember
PromoteThrow(c, error) ==
    /\ result' = Outcome(c, "promoteMember", call[c].id, "failed", error)
    /\ promotingId' = [promotingId EXCEPT ![c] = Null]
    /\ call' = [call EXCEPT ![c] = NoCall]

\* supabase.from("members").insert(memberPayload).select("id").single()
PromoteInsertMember(c) ==
    /\ call[c].op = "promoteMember" /\ call[c].pc = "insert"
    /\ MemberUnique(members, call[c].pipeliner.email, trim(call[c].member_number))
    /\ FreeIds(ExistingMembers(members), MemberIds) # {}
    /\ LET id == NewId(ExistingMembers(members), MemberIds)
       IN /\ members' = [members EXCEPT ![id] =
                            [status |-> "active", email |-> call[c].pipeliner.email,
                             member_number |-> trim(call[c].member_number),
                             from_pipeliner |-> call[c].id]]
          /\ call' = [call EXCEPT ![c].pc = "update", ![c].inserted = id]
    /\ UNCHANGED <<meetings, attendance, guests, guest_events, pipeliners, charity_events,
                   cache, gsel, promotingId, result, tx>>

\* the insert violates members_email_key or members_member_number_key
PromoteInsertConflict(c) ==
    /\ call[c].op = "promoteMember" /\ call[c].pc = "insert"
    /\ ~MemberUnique(members, call[c].pipeliner.email, trim(call[c].member_number))
    /\ PromoteThrow(c, "unique")
    /\ UNCHANGED <<meetings, attendance, guests, guest_events, pipeliners, members,
                   charity_events, cache, gsel, tx>>

\* the insert fails in the store or on the way to it
PromoteInsertFails(c) ==
    /\ call[c].op = "promoteMember" /\ call[c].pc = "insert"
    /\ PromoteThrow(c, "store")
    /\ UNCHANGED <<meetings, attendance, guests, guest_events, pipeliners, members,
                   charity_events, cache, gsel, tx>>

\* supabase.from("pipeliners").update({ status, is_eligible_for_membership })
BecameMember(ps, pid) ==
    IF ps[pid].status = "absent" THEN ps
    ELSE [ps EXCEPT ![pid].status = "became_member",
                    ![pid].is_eligible_for_membership = FALSE]

PromoteUpdatePipeliner(c) ==
    /\ call[c].op = "promoteMember" /\ call[c].pc = "update"
    /\ pipeliners' = BecameMember(pipeliners, call[c].id)
    /\ call' = [call EXCEPT ![c].pc = "fetch"]
    /\ UNCHANGED <<meetings, attendance, guests, guest_events, members, charity_events,
                   cache, gsel, promotingId, result, tx>>

PromoteUpdateFails(c) ==
    /\ call[c].op = "promoteMember" /\ call[c].pc = "update"
    /\ call' = [call EXCEPT ![c].pc = "compensate"]
    /\ UNCHANGED <<meetings, attendance, guests, guest_events, pipeliners, members,
                   charity_events, cache, gsel, promotingId, result, tx>>

\* supabase.from("members").delete().eq("id", member.id), then the throw;
\* the delete's own result is not looked at
PromoteCompensate(c, deleted) ==
    /\ call[c].op = "promoteMember" /\ call[c].pc = "compensate"
    /\ members' = IF deleted THEN [members EXCEPT ![call[c].inserted] = NoMember]
                  ELSE members
    /\ PromoteThrow(c, "store")
    /\ UNCHANGED <<meetings, attendance, guests, guest_events, pipeliners,
                   charity_events, cache, gsel, tx>>

\* await fetchPipeliners({ silently: true }); return member
PromoteFinish(c) ==
    /\ call[c].op = "promoteMember" /\ call[c].pc = "fetch"
    /\ cache' = [cache EXCEPT ![c] = FetchedPipeliners]
    /\ result' = Outcome(c, "promoteMember", call[c].id, "ok", "none")
    /\ promotingId' = [promotingId EXCEPT ![c] = Null]
    /\ call' = [call EXCEPT ![c] = NoCall]
    /\ UNCHANGED <<meetings, attendance, guests, guest_events, pipeliners, members,
                   charity_events, gsel, tx>>

\* the caller leaves the page between the member insert and the pipeliner
\* update: the two requests share no transaction, so the insert stays; the
\* hook is mounted anew and fetches
PromoteAbandon(c) ==
    /\ call[c].op = "promoteMember" /\ call[c].pc = "update"
    /\ call' = [call EXCEPT ![c] = NoCall]
    /\ promotingId' = [promotingId EXCEPT ![c] = Null]
    /\ cache' = [cache EXCEPT ![c] = FetchedPipeliners]
    /\ UNCHANGED <<meetings, attendance, guests, guest_events, pipeliners, members,
                   charity_events, gsel, result, tx>>

PromoteMemberStep(c) ==
    \/ \E pid \in PipelinerIds, n \in MemberNumbers \cup {Null, Blank}, d \in {Null, 1} :
           PromoteStart(c, pid, n, d)
    \/ PromoteInsertMember(c)
    \/ PromoteInsertConflict(c)
    \/ PromoteInsertFails(c)
    \/ PromoteUpdatePipeliner(c)
    \/ PromoteUpdateFails(c)
    \/ \E deleted \in BOOLEAN : PromoteCompensate(c, deleted)
    \/ PromoteFinish(c)

\* ------------------------------------ createPipeliner and updatePipeliner
\* a form field left out of PipelinerFormValues
Undefined == -1

\* values.x ?? d
OrDefault(v, d) == IF v = Undefined THEN d ELSE v

normalizePipelinerPayload(values) ==
    [email |-> values.email,
     guest_meetings_count |-> OrDefault(values.guest_meetings_count, 3),
     business_meetings_count |-> OrDefault(values.business_meetings_count, 0),
     charity_events_count |-> OrDefault(values.charity_events_count, 0),
     is_eligible_for_membership |-> (values.is_eligible_for_membership = "true"),
     status |-> IF values.status = "undefined" THEN "active" ELSE values.status]

\* a form that submits the contact fields only
ContactForm(email) ==
    [email |-> email, guest_meetings_count |-> Undefined,
     business_meetings_count |-> Undefined, charity_events_count |-> Undefined,
     is_eligible_for_membership |-> "undefined", status |-> "undefined"]

\* a form that submits the contact fields and the two counters
CountersForm(email, bmc, cec) ==
    [ContactForm(email) EXCEPT !.business_meetings_count = bmc,
                               !.charity_events_count = cec]

\* a form prefilled from the row the hook holds, with the e-mail edited
EditForm(row, email) ==
    [email |-> email, guest_meetings_count |-> Undefined,
     business_meetings_count |-> row.business_meetings_count,
     charity_events_count |-> row.charity_events_count,
     is_eligible_for_membership |-> IF row.is_eligible_for_membership THEN "true" ELSE "false",
     status |-> row.status]

createPipeliner(c, values) ==
    LET payload == normalizePipelinerPayload(values)
        free == FreeIds(ExistingPipeliners(pipeliners), PipelinerIds)
        id == NewId(ExistingPipeliners(pipeliners), PipelinerIds)
    IN /\ call[c].op = "idle"
       /\ free # {}
       /\ pipeliners' = [pipeliners EXCEPT ![id] =
              [status |-> payload.status, email |-> payload.email,
               guest_meetings_count |-> payload.guest_meetings_count,
               business_meetings_count |-> payload.business_meetings_count,
               charity_events_count |-> payload.charity_events_count,
               is_eligible_for_membership |-> payload.is_eligible_for_membership,
               from_guest |-> Null]]
       /\ cache' = [cache EXCEPT ![c] = FetchedFrom(attendance, charity_events, pipeliners')]
       /\ UNCHANGED <<meetings, attendance, guests, guest_events, members, charity_events,
                      gsel, promotingId, call, result, tx>>

updatePipeliner(c, id, values) ==
    LET payload == normalizePipelinerPayload(values)
    IN /\ call[c].op = "idle"
       /\ pipeliners[id].status # "absent"
       /\ pipeliners' = [pipeliners EXCEPT
              ![id].status = payload.status,
              ![id].email = payload.email,
              ![id].guest_meetings_count = payload.guest_meetings_count,
              ![id].business_meetings_count = payload.business_meetings_count,
              ![id].charity_events_count = payload.charity_events_count,
              ![id].is_eligible_for_membership = payload.is_eligible_for_membership]
       /\ cache' = [cache EXCEPT ![c] = FetchedFrom(attendance, charity_events, pipeliners')]
       /\ UNCHANGED <<meetings, attendance, guests, guest_events, members, charity_events,
                      gsel, promotingId, call, result, tx>>

\* the administrator replaces or clears the e-mail address of a pipeliner
EditEmailStep(c) ==
    \E id \in PipelinerIds, email \in {Null, 2} :
        /\ cache[c][id].status # "absent"
        /\ updatePipeliner(c, id, EditForm(cache[c][id], email))

AdminStep(c) ==
    \/ createPipeliner(c, ContactForm(2))
    \/ createPipeliner(c, CountersForm(2, 3, 1))
    \/ \E id \in PipelinerIds :
           /\ cache[c][id].status # "absent"
           /\ updatePipeliner(c, id, ContactForm(2))
    \/ EditEmailStep(c)

\* const eligible = guest ? guest.meeting_count >= 3 || guest.eligible_for_pipeliner : false
DialogEligible(guest) ==
    IF guest.status = "absent" THEN FALSE
    ELSE guest.meeting_count >= 3 \/ guest.eligible_for_pipeliner

\* ------------------------------- PromoteToPipelinerDialog.handleConfirm
\* the parent opens the dialog on a row of guest_meeting_counts
OpenDialog(c, g) ==
    /\ call[c].op = "idle"
    /\ gsel' = [gsel EXCEPT ![c] = GuestView(g)]
    /\ gsel'[c] # gsel[c]
    /\ UNCHANGED <<meetings, attendance, guests, guest_events, pipeliners, members,
                   charity_events, cache, promotingId, call, result, tx>>

\* handleConfirm up to setSubmitting(true)
ConfirmStart(c, sponsorId) ==
    /\ call[c].op = "idle"
    /\ gsel[c].id # Null
    /\ IF sponsorId = Null
       THEN /\ result' = Outcome(c, "promoteGuest", gsel[c].id, "rejected", "no_sponsor")
            /\ UNCHANGED call
       ELSE /\ call' = [call EXCEPT ![c] =
                           [NoCall EXCEPT !.op = "promoteGuest", !.pc = "insert",
                                          !.id = gsel[c].id, !.guest = gsel[c],
                                          !.sponsor = sponsorId]]
            /\ UNCHANGED result
    /\ UNCHANGED <<meetings, attendance, guests, guest_events, pipeliners, members,
                   charity_events, cache, gsel, promotingId, tx>>

\* the row handleConfirm inserts; charity_events_count takes the column default
PromotedPipeliner(guest) ==
    [status |-> "active", email |-> guest.email,
     guest_meetings_count |-> Max(guest.meeting_count, 3),
     business_meetings_count |-> guest.present_count,
     charity_events_count |-> 0,
     is_eligible_for_membership |-> FALSE,
     from_guest |-> guest.id]

\* catch + finally of handleConfirm
ConfirmThrow(c, error) ==
    /\ result' = Outcome(c, "promoteGuest", call[c].id, "failed", error)
    /\ call' = [call EXCEPT ![c] = NoCall]

\* supabase.from("pipeliners").insert(payload).select("id").single()
ConfirmInsertPipeliner(c) ==
    /\ call[c].op = "promoteGuest" /\ call[c].pc = "insert"
    /\ members[call[c].sponsor].status # "absent"
    /\ FreeIds(ExistingPipeliners(pipeliners), PipelinerIds) # {}
    /\ LET id == NewId(ExistingPipeliners(pipeliners), PipelinerIds)
       IN /\ pipeliners' = [pipeliners EXCEPT ![id] = PromotedPipeliner(call[c].guest)]
          /\ call' = [call EXCEPT ![c].pc = "update", ![c].inserted = id]
    /\ UNCHANGED <<meetings, attendance, guests, guest_events, members, charity_events,
                   cache, gsel, promotingId, result, tx>>

ConfirmInsertFails(c) ==
    /\ call[c].op = "promoteGuest" /\ call[c].pc = "insert"
    /\ ConfirmThrow(c, "store")
    /\ UNCHANGED <<meetings, attendance, guests, guest_events, pipeliners, members,
                   charity_events, cache, gsel, promotingId, tx>>

\* supabase.from("guests").update({ status, total_meetings }).eq("id", guest.id)
BecamePipeliner(gs, guest) ==
    [gs EXCEPT ![guest.id].status = "became_pipeliner",
               ![guest.id].total_meetings = Max(guest.total_meetings, 3)]

ConfirmUpdateGuest(c) ==
    /\ call[c].op = "promoteGuest" /\ call[c].pc = "update"
    /\ guests' = BecamePipeliner(guests, call[c].guest)
    /\ call' = [call EXCEPT ![c].pc = "done"]
    /\ UNCHANGED <<meetings, attendance, guest_events, pipeliners, members, charity_events,
                   cache, gsel, promotingId, result, tx>>

\* toast.success, onPromoted, handleClose(false): the dialog closes
ConfirmFinish(c) ==
    /\ call[c].op = "promoteGuest" /\ call[c].pc = "done"
    /\ result' = Outcome(c, "promoteGuest", call[c].id, "ok", "none")
    /\ call' = [call EXCEPT ![c] = NoCall]
    /\ gsel' = [gsel EXCEPT ![c] = NoGuestView]
    /\ UNCHANGED <<meetings, attendance, guests, guest_events, pipeliners, members,
                   charity_events, cache, promotingId, tx>>

ConfirmUpdateFails(c) ==
    /\ call[c].op = "promoteGuest" /\ call[c].pc = "update"
    /\ call' = [call EXCEPT ![c].pc = "compensate"]
    /\ UNCHANGED <<meetings, attendance, guests, guest_events, pipeliners, members,
                   charity_events, cache, gsel, promotingId, result, tx>>

\* supabase.from("pipeliners").delete().eq("id", inserted.id), then the throw;
\* the delete's own result is not looked at. The delete cascades to the
\* attendance rows of the pipeliner.
ConfirmCompensate(c, deleted) ==
    /\ call[c].op = "promoteGuest" /\ call[c].pc = "compensate"
    /\ IF deleted
       THEN /\ pipeliners' = [pipeliners EXCEPT ![call[c].inserted] = NoPipeliner]
            /\ attendance' = {r \in attendance : r.pipeliner_id # call[c].inserted}
       ELSE UNCHANGED <<pipeliners, attendance>>
    /\ ConfirmThrow(c, "store")
    /\ UNCHANGED <<meetings, guests, guest_events, members, charity_events,
                   cache, gsel, promotingId, tx>>

PromoteGuestStep(c) ==
    \/ \E g \in GuestIds : OpenDialog(c, g)
    \/ \E sponsorId \in {Null, 1} : ConfirmStart(c, sponsorId)
    \/ ConfirmInsertPipeliner(c)
    \/ ConfirmInsertFails(c)
    \/ ConfirmUpdateGuest(c)
    \/ ConfirmFinish(c)
    \/ ConfirmUpdateFails(c)
    \/ \E deleted \in BOOLEAN : ConfirmCompensate(c, deleted)

\* -------------------------------------- concurrent attendance statements
\* Two callers insert attendance rows at the same time. Each insert is one
\* transaction of the store at its default isolation level (read committed):
\* the row and the trigger's writes become visible to the other transaction
\* at commit, every statement of the trigger reads what is committed when it
\* starts plus the transaction's own writes, and the update of a guests or
\* pipeliners row waits for the transaction that has updated the same row.
PendingRows(c) == {tx[d].row : d \in {d \in Callers : d # c /\ tx[d].pc # "idle"}}

TxInsert(c, m, g, p, s) ==
    LET new == AttendanceRow(m, Null, g, p, s)
    IN /\ tx[c].pc = "idle"
       /\ Cardinality(attendance \cup PendingRows(c)) < MaxRows
       /\ new \notin attendance \cup PendingRows(c)
       /\ AttendanceRefsOk(new, meetings, pipeliners)
       /\ AttendanceUnique(attendance \cup PendingRows(c) \cup {new})
       /\ tx' = [tx EXCEPT ![c] = [NoTx EXCEPT !.pc = "count", !.row = new]]
       /\ UNCHANGED <<meetings, attendance, guests, guest_events, pipeliners, members,
                      charity_events, cache, gsel, promotingId, call, result>>

\* the select count(*) into ... statements of the refresh functions
TxCount(c) ==
    LET visible == attendance \cup {tx[c].row}
    IN /\ tx[c].pc = "count"
       /\ tx' = [tx EXCEPT
              ![c].pc = "update",
              ![c].meeting_count =
                  IF tx[c].row.guest_id # Null
                  THEN GuestPresentCount(visible, tx[c].row.guest_id)
                  ELSE PipelinerPresentCount(visible, tx[c].row.pipeliner_id),
              ![c].charity_event_count =
                  PipelinerCharityCount(charity_events, tx[c].row.pipeliner_id)]
       /\ UNCHANGED <<meetings, attendance, guests, guest_events, pipeliners, members,
                      charity_events, cache, gsel, promotingId, call, result>>

\* the rows another open transaction has updated and not yet committed
SameSubject(r1, r2) ==
    r1.guest_id = r2.guest_id /\ r1.pipeliner_id = r2.pipeliner_id

\* the update statement of the refresh functions: it takes the row lock
TxUpdate(c) ==
    /\ tx[c].pc = "update"
    /\ \A d \in Callers \ {c} : ~(tx[d].pc = "commit" /\ SameSubject(tx[d].row, tx[c].row))
    /\ tx' = [tx EXCEPT ![c].pc = "commit"]
    /\ UNCHANGED <<meetings, attendance, guests, guest_events, pipeliners, members,
                   charity_events, cache, gsel, promotingId, call, result>>

TxCommit(c) ==
    LET row == tx[c].row
    IN /\ tx[c].pc = "commit"
       /\ attendance' = attendance \cup {row}
       /\ guests' = IF row.guest_id # Null
                    THEN [guests EXCEPT ![row.guest_id].total_meetings = tx[c].meeting_count]
                    ELSE guests
       /\ pipeliners' =
              IF row.pipeliner_id # Null
              THEN [pipeliners EXCEPT
                      ![row.pipeliner_id].business_meetings_count = tx[c].meeting_count,
                      ![row.pipeliner_id].charity_events_count = tx[c].charity_event_count,
                      ![row.pipeliner_id].is_eligible_for_membership =
                          EligibleFromCounts(tx[c].meeting_count, tx[c].charity_event_count)]
              ELSE pipeliners
       /\ tx' = [tx EXCEPT ![c] = NoTx]
       /\ UNCHANGED <<meetings, guest_events, members, charity_events,
                      cache, gsel, promotingId, call, result>>

TxStep(c) ==
    \/ \E m \in MeetingIds, sub \in OneSubject, s \in StatusInputs :
           TxInsert(c, m, sub[2], sub[3], s)
    \/ TxCount(c)
    \/ TxUpdate(c)
    \/ TxCommit(c)

\* ------------------------------------------------ initial database states
\* Guests added through AddGuestDialog, one pipeliner created through
\* createPipeliner with the form's defaults, the founding member that
\* sponsors promotions, no attendance yet.
FoundingMember ==
    [status |-> "active", email |-> 3, member_number |-> 3, from_pipeliner |-> Null]

AdminPipeliner ==
    [status |-> "active", email |-> 1, guest_meetings_count |-> DefaultGuestMeetingsCount,
     business_meetings_count |-> 0, charity_events_count |-> 0,
     is_eligible_for_membership |-> FALSE, from_guest |-> Null]

NewGuest == [status |-> "active", email |-> 1, total_meetings |-> 0]

ClientInit ==
    /\ cache = [c \in Callers |-> [p \in PipelinerIds |-> NoView]]
    /\ gsel = [c \in Callers |-> NoGuestView]
    /\ promotingId = [c \in Callers |-> Null]
    /\ call = [c \in Callers |-> NoCall]
    /\ result = NoResult
    /\ tx = [c \in Callers |-> NoTx]

InitLedger ==
    /\ meetings = MeetingIds
    /\ attendance = {}
    /\ guests = [g \in GuestIds |-> NewGuest]
    /\ guest_events = [g \in GuestIds |-> 0]
    /\ pipeliners = [p \in PipelinerIds |-> IF p = 1 THEN AdminPipeliner ELSE NoPipeliner]
    /\ members = [m \in MemberIds |-> IF m = 1 THEN FoundingMember ELSE NoMember]
    /\ charity_events = [e \in EventIds |-> NoEvent]
    /\ ClientInit

NextLedger == AttendanceStep \/ CharityStep

SpecLedger == InitLedger /\ [][NextLedger]_vars

\* Databases the ledger statements above lead to.
\* Guest 1 was present at three meetings, sent an apology for the fourth and
\* has a guest event; guest 2 has attended nothing and left no e-mail
\* address; nobody is a pipeliner yet.
PromoGuest(g) ==
    IF g = 1 THEN [status |-> "active", email |-> 1, total_meetings |-> 3]
    ELSE [status |-> "active", email |-> Null, total_meetings |-> 0]

InitGuest ==
    /\ meetings = MeetingIds
    /\ attendance =
           {AttendanceRow(m, Null, 1, Null, "present") : m \in 1..BUSINESS_MEETING_TARGET}
           \cup {AttendanceRow(m, Null, 1, Null, "apology") :
                     m \in MeetingIds \ (1..BUSINESS_MEETING_TARGET)}
    /\ guests = [g \in GuestIds |-> PromoGuest(g)]
    /\ guest_events = [g \in GuestIds |-> IF g = 1 THEN 1 ELSE 0]
    /\ charity_events = [e \in EventIds |-> NoEvent]
    /\ pipeliners = [p \in PipelinerIds |-> NoPipeliner]
    /\ members = [m \in MemberIds |-> IF m = 1 THEN FoundingMember ELSE NoMember]
    /\ ClientInit

\* Pipeliner 1 was present at meetings 1 to 3 and took part in the charity
\* event; both callers have mounted the hook and fetched.
InitMember ==
    /\ meetings = MeetingIds
    /\ attendance = {AttendanceRow(m, Null, Null, 1, "present") :
                         m \in 1..BUSINESS_MEETING_TARGET}
    /\ guests = [g \in GuestIds |-> NewGuest]
    /\ guest_events = [g \in GuestIds |-> 0]
    /\ charity_events = [e \in EventIds |-> [exists |-> TRUE, participant_ids |-> {1}]]
    /\ pipeliners = [p \in PipelinerIds |->
            IF p = 1
            THEN [AdminPipeliner EXCEPT
                    !.business_meetings_count = 3, !.charity_events_count = 1,
                    !.is_eligible_for_membership = TRUE]
            ELSE NoPipeliner]
    /\ members = [m \in MemberIds |-> NoMember]
    /\ cache = [c \in Callers |-> FetchedPipeliners]
    /\ gsel = [c \in Callers |-> NoGuestView]
    /\ promotingId = [c \in Callers |-> Null]
    /\ call = [c \in Callers |-> NoCall]
    /\ result = NoResult
    /\ tx = [c \in Callers |-> NoTx]

\* the meeting held last
LastMeeting == {m \in meetings : \A n \in meetings : n <= m}

NextMember ==
    \/ \E c \in Callers : PromoteMemberStep(c)
    \/ \E c \in Callers : fetchPipeliners(c)
    \/ EditEmailStep(1)
    \/ DeleteMeeting(1)

SpecMember == InitMember /\ [][NextMember]_vars

NextAdmin ==
    \/ AdminStep(1)
    \/ fetchPipeliners(1)
    \/ DeleteMeeting(1)
    \/ CharityStep

SpecAdmin == InitMember /\ [][NextAdmin]_vars

NextGuest ==
    \/ \E c \in Callers : PromoteGuestStep(c)
    \/ \E m \in LastMeeting : DeleteMeeting(m)

SpecGuest == InitGuest /\ [][NextGuest]_vars

NextConcurrent == \E c \in Callers : TxStep(c)

SpecConcurrent == InitLedger /\ [][NextConcurrent]_vars

\* Pipeliner 1 was present at meetings 1 to 3 and takes part in the charity
\* event, guest 1 was present at meetings 1 and 2, guest 2 sent an apology
\* for meeting 1.
InitCascade ==
    /\ meetings = MeetingIds
    /\ attendance =
           {AttendanceRow(m, Null, Null, 1, "present") : m \in 1..BUSINESS_MEETING_TARGET}
           \cup {AttendanceRow(m, Null, 1, Null, "present") : m \in {1, 2}}
           \cup {AttendanceRow(1, Null, 2, Null, "apology")}
    /\ guests = [g \in GuestIds |->
                    [NewGuest EXCEPT !.total_meetings = IF g = 1 THEN 2 ELSE 0]]
    /\ guest_events = [g \in GuestIds |-> 0]
    /\ charity_events = [e \in EventIds |-> [exists |-> TRUE, participant_ids |-> {1}]]
    /\ pipeliners = [p \in PipelinerIds |->
            IF p = 1
            THEN [AdminPipeliner EXCEPT
                    !.business_meetings_count = 3, !.charity_events_count = 1,
                    !.is_eligible_for_membership = TRUE]
            ELSE NoPipeliner]
    /\ members = [m \in MemberIds |-> IF m = 1 THEN FoundingMember ELSE NoMember]
    /\ ClientInit

\* meetings are deleted, attendance is recorded, charity events are edited
\* and the hooks refetch; no attendance row is deleted on its own
NextCascade ==
    \/ \E m \in MeetingIds : DeleteMeeting(m)
    \/ \E m \in MeetingIds, sub \in OneSubject, s \in StatusInputs :
           InsertAttendance(m, sub[1], sub[2], sub[3], s)
    \/ CharityStep
    \/ \E c \in Callers : fetchPipeliners(c)

SpecCascade == InitCascade /\ [][NextCascade]_vars

\* one caller promotes, may leave the page half way, and charity events are
\* edited before and after
NextLifecycle ==
    \/ PromoteMemberStep(1)
    \/ PromoteAbandon(1)
    \/ fetchPipeliners(1)
    \/ CharityStep

SpecLifecycle == InitMember /\ [][NextLifecycle]_vars

\* attendance rows are corrected in place (status, subject) and charity
\* events are edited
NextReassign ==
    \/ \E old \in attendance, sub \in OneSubject, s \in StatusInputs :
           UpdateAttendance(old, sub[1], sub[2], sub[3], s)
    \/ CharityStep

SpecReassign == InitCascade /\ [][NextReassign]_vars

\* one caller promotes and refetches while meeting 1 is deleted and charity
\* events are edited
NextGate ==
    \/ PromoteMemberStep(1)
    \/ fetchPipeliners(1)
    \/ DeleteMeeting(1)
    \/ CharityStep

SpecGate == InitMember /\ [][NextGate]_vars

\* Rows as a client or a backup file may submit them: each subject column is
\* null or names an existing row.
AnySubject ==
    ({Null} \cup ExistingMembers(members)) \X ({Null} \cup GuestIds)
        \X ({Null} \cup ExistingPipeliners(pipeliners))

NextStore ==
    \/ \E m \in MeetingIds, sub \in AnySubject, s \in StatusInputs :
           InsertAttendance(m, sub[1], sub[2], sub[3], s)
    \/ \E old \in attendance : DeleteAttendance(old)

SpecStore == InitLedger /\ [][NextStore]_vars

\* ================================================ the useCharityEvents hook
\* the longest participant array a form submits
MaxIds == 2

\* The id of member m as a participant id: uuids are drawn independently,
\* so no member shares its id with a pipeliner.
MemberUuid(m) == MaxPipeliners + m

\* string[] | null | undefined
NoArray == [is_null |-> TRUE, elems |-> <<>>]
ArrayOf(s) == [is_null |-> FALSE, elems |-> s]
\* a ?? [] and coalesce(a, '{}')
OrEmpty(a) == IF a.is_null THEN <<>> ELSE a.elems
Elements(a) == {OrEmpty(a)[i] : i \in 1..Len(OrEmpty(a))}

ArraysOver(ids) == {NoArray} \cup {ArrayOf(s) : s \in UNION {[1..n -> ids] : n \in 0..MaxIds}}

\* .filter(Boolean) on an array of strings drops the empty strings
filterBoolean(a) == SelectSeq(a, LAMBDA id : id # Blank)

\* an array handed on as it is
ArrayKeepAll(a) == a

\* Array.from(new Set(a)): the first occurrence of every element, in order
RECURSIVE ArrayFromSet(_)
ArrayFromSet(a) ==
    IF a = <<>> THEN <<>>
    ELSE LET front == ArrayFromSet(SubSeq(a, 1, Len(a) - 1))
             last == a[Len(a)]
         IN IF \E i \in 1..Len(front) : front[i] = last
            THEN front
            ELSE Append(front, last)

\* event_name, event_date and description are copied and not modelled
normalizeCharityEventPayload(values) ==
    LET participantIds ==
            filterBoolean(OrEmpty(values.participant_member_ids)
                          \o OrEmpty(values.participant_pipeliner_ids))
        uniqueParticipants == ArrayFromSet(participantIds)
    IN [participant_ids |-> IF Len(uniqueParticipants) > 0
                            THEN ArrayOf(uniqueParticipants)
                            ELSE NoArray]

\* the forms of the charity event dialog: members and pipeliners picked from
\* the lists, an entry possibly left empty
CharityEventForms ==
    {[participant_member_ids |-> ms, participant_pipeliner_ids |-> ps] :
        ms \in ArraysOver({MemberUuid(m) : m \in ExistingMembers(members)} \cup {Blank}),
        ps \in ArraysOver(ExistingPipeliners(pipeliners) \cup {Blank})}

\* what createEvent and updateEvent leave behind: the form, the payload
\* sent to the store and the events fetched afterwards
CharityOutcome(c, op, id, values, payload, outcome, events) ==
    [caller |-> c, op |-> op, id |-> id, outcome |-> outcome, values |-> values,
     payload |-> payload, events |-> events]

createEvent(c, values) ==
    LET payload == normalizeCharityEventPayload(values)
        ids == Elements(payload.participant_ids)
    IN \E e \in EventIds :
        LET evs == [charity_events EXCEPT
                       ![e] = [exists |-> TRUE, participant_ids |-> ids]]
        IN /\ ~charity_events[e].exists
           /\ charity_events' = evs
           /\ pipeliners' = RefreshPipeliners(attendance, evs, pipeliners,
                                              CharityToRefresh("INSERT", {}, ids))
           /\ result' = CharityOutcome(c, "createEvent", e, values, payload, "done", evs)
           /\ UNCHANGED <<meetings, attendance, guests, guest_events, members,
                          cache, gsel, promotingId, call, tx>>

updateEvent(c, id, values) ==
    LET payload == normalizeCharityEventPayload(values)
        ids == Elements(payload.participant_ids)
        evs == [charity_events EXCEPT ![id].participant_ids = ids]
    IN IF charity_events[id].exists
       THEN /\ charity_events' = evs
            /\ pipeliners' = RefreshPipeliners(attendance, evs, pipeliners,
                   CharityToRefresh("UPDATE", charity_events[id].participant_ids, ids))
            /\ result' = CharityOutcome(c, "updateEvent", id, values, payload, "done", evs)
            /\ UNCHANGED <<meetings, attendance, guests, guest_events, members,
                           cache, gsel, promotingId, call, tx>>
       ELSE \* .single() finds no row: the error is thrown, nothing is fetched
            /\ result' = CharityOutcome(c, "updateEvent", id, values, payload, "error",
                                        charity_events)
            /\ UNCHANGED <<meetings, attendance, guests, guest_events, pipeliners,
                           members, charity_events, cache, gsel, promotingId, call, tx>>

\* Pipeliner 1 was present at meetings 1 to 3, pipeliner 2 at meeting 1;
\* no charity event has been entered yet.
InitCharity ==
    /\ meetings = MeetingIds
    /\ attendance =
           {AttendanceRow(m, Null, Null, 1, "present") : m \in 1..BUSINESS_MEETING_TARGET}
           \cup {AttendanceRow(1, Null, Null, 2, "present")}
    /\ guests = [g \in GuestIds |-> NewGuest]
    /\ guest_events = [g \in GuestIds |-> 0]
    /\ charity_events = [e \in EventIds |-> NoEvent]
    /\ pipeliners = [p \in PipelinerIds |->
            IF p = 1 THEN [AdminPipeliner EXCEPT !.business_meetings_count = 3]
            ELSE IF p = 2 THEN [AdminPipeliner EXCEPT !.email = 2,
                                                      !.business_meetings_count = 1]
            ELSE NoPipeliner]
    /\ members = [m \in MemberIds |-> IF m = 1 THEN FoundingMember ELSE NoMember]
    /\ ClientInit

\* charity events are entered and edited in the dialog and deleted in the
\* store
NextCharityForm ==
    \/ \E values \in CharityEventForms : createEvent(1, values)
    \/ \E e \in EventIds, values \in CharityEventForms : updateEvent(1, e, values)
    \/ \E e \in EventIds : DeleteCharityEvent(e)

SpecCharityForm == InitCharity /\ [][NextCharityForm]_vars

\* ================================================== membership statistics
\* the months a statistic is asked for
Months == {1, 2, 3}

\* meeting_date of the modelled meetings: meetings 1 and 2 were held in
\* month 1, the later ones in month 2, none in month 3
MeetingMonth(m) == IF m <= 2 THEN 1 ELSE 2

\* useMembers.updateMember with the form of the edit dialog: status and
\* member number as entered, the other fields as loaded
updateMember(c, id, status, member_number) ==
    /\ members[id].status # "absent"
    /\ members' = [members EXCEPT ![id].status = status,
                                  ![id].member_number = member_number]
    /\ result' = Outcome(c, "updateMember", id, "done", Null)
    /\ UNCHANGED <<meetings, attendance, guests, guest_events, pipeliners,
                   charity_events, cache, gsel, promotingId, call, tx>>

\* Math.round(value * 100) / 100 of value = num / den * 100, in hundredths
\* of a per cent
roundToTwoDecimals(num, den) == (2 * num * 100 * 100 + den) \div (2 * den)

\* the part of fetchMembershipStats that counts members: the yearly average
\* and the pipeliner rates are computed next to it and not modelled
MembershipStats(month) ==
    LET activeMemberIds ==
            {m \in MemberIds : /\ members[m].status = "active"
                               /\ members[m].member_number # Null}
        activeMembers == Cardinality(activeMemberIds)
        monthMeetingIds == {m \in meetings : MeetingMonth(m) = month}
        monthAttendance ==
            {r \in attendance : r.meeting_id \in monthMeetingIds /\ r.status = "present"}
        uniqueMonthlyAttendees ==
            {r.member_id : r \in {x \in monthAttendance : x.member_id # Null}}
        meetingAttendanceCount ==
            IF monthMeetingIds # {} THEN Cardinality(uniqueMonthlyAttendees) ELSE 0
        meetingAttendancePercentage ==
            IF monthMeetingIds # {} /\ activeMembers > 0
            THEN roundToTwoDecimals(Cardinality(uniqueMonthlyAttendees), activeMembers)
            ELSE 0
    IN [activeMembers |-> activeMembers,
        meetingAttendanceCount |-> meetingAttendanceCount,
        attendanceRate |-> meetingAttendancePercentage,
        meetingAttendancePercentage |-> meetingAttendancePercentage]

fetchMembershipStats(c, month) ==
    /\ result' = [caller |-> c, op |-> "fetchMembershipStats", month |-> month,
                  stats |-> MembershipStats(month)]
    /\ UNCHANGED <<meetings, attendance, guests, guest_events, pipeliners, members,
                   charity_events, cache, gsel, promotingId, call, tx>>

\* Two members with their numbers; nobody has attended yet.
InitStats ==
    /\ meetings = MeetingIds
    /\ attendance = {}
    /\ guests = [g \in GuestIds |-> NewGuest]
    /\ guest_events = [g \in GuestIds |-> 0]
    /\ pipeliners = [p \in PipelinerIds |-> NoPipeliner]
    /\ members = [m \in MemberIds |->
                     IF m <= 2 THEN [FoundingMember EXCEPT !.email = m, !.member_number = m]
                     ELSE NoMember]
    /\ charity_events = [e \in EventIds |-> NoEvent]
    /\ ClientInit

\* members are marked present, their records are edited and the statistics
\* of a month are fetched
NextStats ==
    \/ \E m \in MeetingIds, mem \in ExistingMembers(members) :
           InsertAttendance(m, mem, Null, Null, "present")
    \/ \E id \in MemberIds, status \in {"active", "inactive"} :
           \E member_number \in {Null, id} : updateMember(1, id, status, member_number)
    \/ \E month \in Months : fetchMembershipStats(1, month)

SpecStats == InitStats /\ [][NextStats]_vars

\* ===================================================== backup and restore
CLEAR_DATA_PASSWORD == "RTL32-RESET"
Passwords == {CLEAR_DATA_PASSWORD, "guess"}

\* const TABLES, in the order clearAllData deletes them
TABLES == <<"attendance", "charity_events", "pipeliners", "guests", "meetings", "members">>

NoGuest == [status |-> "absent", email |-> Null, total_meetings |-> 0]

\* select("*") on the six tables of a BackupPayload
BackupPayload ==
    [members |-> members, meetings |-> meetings, attendance |-> attendance,
     guests |-> guests, pipeliners |-> pipeliners, charity_events |-> charity_events]

EmptyPayload ==
    [members |-> [m \in MemberIds |-> NoMember], meetings |-> {}, attendance |-> {},
     guests |-> [g \in GuestIds |-> NoGuest],
     pipeliners |-> [p \in PipelinerIds |-> NoPipeliner],
     charity_events |-> [e \in EventIds |-> NoEvent]]

\* the backup file downloaded last
BackupFile ==
    IF result.op \in {"backupAllData", "clearAllData", "importFromBackup"}
    THEN result.payload
    ELSE EmptyPayload

BackupOutcome(c, op, outcome, payload) ==
    [caller |-> c, op |-> op, outcome |-> outcome, payload |-> payload]

backupAllData(c) ==
    /\ result' = BackupOutcome(c, "backupAllData", "done", BackupPayload)
    /\ UNCHANGED <<meetings, attendance, guests, guest_events, pipeliners, members,
                   charity_events, cache, gsel, promotingId, call, tx>>

\* the store after delete() has emptied the first k tables of TABLES, each
\* delete with its row triggers and cascades
Cleared(k) ==
    LET att == IF k >= 1 THEN {} ELSE attendance
        gs1 == IF k >= 1
               THEN RefreshGuests(att, guests,
                        {r.guest_id : r \in {x \in attendance : x.guest_id # Null}})
               ELSE guests
        ps1 == IF k >= 1
               THEN RefreshPipeliners(att, charity_events, pipeliners,
                        {r.pipeliner_id : r \in {x \in attendance : x.pipeliner_id # Null}})
               ELSE pipeliners
        evs == IF k >= 2 THEN [e \in EventIds |-> NoEvent] ELSE charity_events
        ps2 == IF k >= 2
               THEN RefreshPipeliners(att, evs, ps1,
                        UNION {CharityToRefresh("DELETE", charity_events[e].participant_ids, {}) :
                                  e \in {x \in EventIds : charity_events[x].exists}})
               ELSE ps1
    IN [attendance |-> att,
        charity_events |-> evs,
        pipeliners |-> IF k >= 3 THEN [p \in PipelinerIds |-> NoPipeliner] ELSE ps2,
        guests |-> IF k >= 4 THEN [g \in GuestIds |-> NoGuest] ELSE gs1,
        guest_events |-> IF k >= 4 THEN [g \in GuestIds |-> 0] ELSE guest_events,
        meetings |-> IF k >= 5 THEN {} ELSE meetings,
        members |-> IF k >= 6 THEN [m \in MemberIds |-> NoMember] ELSE members]

\* deleted: the number of tables emptied before a delete returned an error,
\* Len(TABLES) when none did
clearAllData(c, password, deleted) ==
    IF password # CLEAR_DATA_PASSWORD
    THEN /\ result' = BackupOutcome(c, "clearAllData", "error", BackupFile)
         /\ UNCHANGED <<meetings, attendance, guests, guest_events, pipeliners, members,
                        charity_events, cache, gsel, promotingId, call, tx>>
    ELSE /\ attendance' = Cleared(deleted).attendance
         /\ charity_events' = Cleared(deleted).charity_events
         /\ pipeliners' = Cleared(deleted).pipeliners
         /\ guests' = Cleared(deleted).guests
         /\ guest_events' = Cleared(deleted).guest_events
         /\ meetings' = Cleared(deleted).meetings
         /\ members' = Cleared(deleted).members
         /\ result' = BackupOutcome(c, "clearAllData",
                                    IF deleted = Len(TABLES) THEN "done" ELSE "error",
                                    BackupFile)
         /\ UNCHANGED <<cache, gsel, promotingId, call, tx>>

\* an attendance row of the file and a stored row with the same id: in this
\* model a row keeps its meeting and its subject for life
SameRow(r1, r2) ==
    /\ r1.meeting_id = r2.meeting_id
    /\ r1.member_id = r2.member_id
    /\ r1.guest_id = r2.guest_id
    /\ r1.pipeliner_id = r2.pipeliner_id

\* upsert(..., { onConflict: "id" }) table by table, parents first; the rows
\* of a backup file meet every constraint, so no upsert returns an error
importFromBackup(c, payload) ==
    LET mem1 == [m \in MemberIds |->
                    IF payload.members[m].status # "absent"
                    THEN payload.members[m] ELSE members[m]]
        gs1 == [g \in GuestIds |->
                    IF payload.guests[g].status # "absent"
                    THEN payload.guests[g] ELSE guests[g]]
        ps1 == [p \in PipelinerIds |->
                    IF payload.pipeliners[p].status # "absent"
                    THEN payload.pipeliners[p] ELSE pipeliners[p]]
        written == {e \in EventIds : payload.charity_events[e].exists}
        evs1 == [e \in EventIds |->
                    IF e \in written THEN payload.charity_events[e] ELSE charity_events[e]]
        ps2 == RefreshPipeliners(attendance, evs1, ps1,
                   UNION {CharityToRefresh(
                              IF charity_events[e].exists THEN "UPDATE" ELSE "INSERT",
                              charity_events[e].participant_ids,
                              evs1[e].participant_ids) : e \in written})
        att1 == {r \in attendance : \A q \in payload.attendance : ~SameRow(r, q)}
                \cup payload.attendance
        gs2 == RefreshGuests(att1, gs1,
                   {r.guest_id : r \in {x \in payload.attendance : x.guest_id # Null}})
        ps3 == RefreshPipeliners(att1, evs1, ps2,
                   {r.pipeliner_id : r \in {x \in payload.attendance : x.pipeliner_id # Null}})
    IN /\ members' = mem1
       /\ meetings' = meetings \cup payload.meetings
       /\ charity_events' = evs1
       /\ attendance' = att1
       /\ guests' = gs2
       /\ pipeliners' = ps3
       /\ result' = BackupOutcome(c, "importFromBackup", "done", payload)
       /\ UNCHANGED <<guest_events, cache, gsel, promotingId, call, tx>>

\* Pipeliner 1 is eligible: present at meetings 1 to 3 and a participant of
\* the charity event. Pipeliner 2 met the same requirements and has been
\* promoted: its row says became_member and not eligible, member 2 is the
\* row that promotion inserted.
InitBackup ==
    /\ meetings = MeetingIds
    /\ attendance = {AttendanceRow(m, Null, Null, p, "present") :
                         m \in 1..BUSINESS_MEETING_TARGET, p \in {1, 2}}
    /\ guests = [g \in GuestIds |-> NewGuest]
    /\ guest_events = [g \in GuestIds |-> 0]
    /\ charity_events = [e \in EventIds |-> [exists |-> TRUE, participant_ids |-> {1, 2}]]
    /\ pipeliners = [p \in PipelinerIds |->
            IF p = 1
            THEN [AdminPipeliner EXCEPT
                    !.business_meetings_count = 3, !.charity_events_count = 1,
                    !.is_eligible_for_membership = TRUE]
            ELSE IF p = 2
            THEN [AdminPipeliner EXCEPT
                    !.status = "became_member", !.email = 2,
                    !.business_meetings_count = 3, !.charity_events_count = 1]
            ELSE NoPipeliner]
    /\ members = [m \in MemberIds |->
            IF m = 1 THEN FoundingMember
            ELSE IF m = 2
            THEN [status |-> "active", email |-> 2, member_number |-> 2, from_pipeliner |-> 2]
            ELSE NoMember]
    /\ ClientInit

\* backups are taken, the store is cleared and restored, and in between a
\* meeting is deleted and the charity event is edited
NextBackup ==
    \/ backupAllData(1)
    \/ \E password \in Passwords, deleted \in 0..Len(TABLES) :
           clearAllData(1, password, deleted)
    \/ importFromBackup(1, BackupFile)
    \/ DeleteMeeting(1)
    \/ \E e \in EventIds, ids \in SUBSET ExistingPipeliners(pipeliners) :
           UpdateCharityEvent(e, ids)

SpecBackup == InitBackup /\ [][NextBackup]_vars

\* ======================================= charity writes with any participant
\* the ids a charity event may name: pipeliners and members
ParticipantIds ==
    ExistingPipeliners(pipeliners) \cup {MemberUuid(m) : m \in ExistingMembers(members)}

ParticipantStep ==
    \/ \E e \in EventIds, ids \in SUBSET ParticipantIds : InsertCharityEvent(e, ids)
    \/ \E e \in EventIds, ids \in SUBSET ParticipantIds : UpdateCharityEvent(e, ids)
    \/ \E e \in EventIds : DeleteCharityEvent(e)

\* Pipeliner 1 was present at meeting 1. The row of meeting 2 was entered
\* for pipeliner 2 and then corrected to guest 1, which left pipeliner 2
\* with a count of one. No charity event has been entered yet.
InitFrame ==
    /\ meetings = MeetingIds
    /\ attendance = {AttendanceRow(1, Null, Null, 1, "present"),
                     AttendanceRow(2, Null, 1, Null, "present")}
    /\ guests = [g \in GuestIds |->
                    [NewGuest EXCEPT !.total_meetings = IF g = 1 THEN 1 ELSE 0]]
    /\ guest_events = [g \in GuestIds |-> 0]
    /\ charity_events = [e \in EventIds |-> NoEvent]
    /\ pipeliners = [p \in PipelinerIds |->
            IF p = 1 THEN [AdminPipeliner EXCEPT !.business_meetings_count = 1]
            ELSE IF p = 2 THEN [AdminPipeliner EXCEPT !.email = 2,
                                                      !.business_meetings_count = 1]
            ELSE NoPipeliner]
    /\ members = [m \in MemberIds |-> IF m = 1 THEN FoundingMember ELSE NoMember]
    /\ ClientInit

\* charity events are written with members and pipeliners as participants
\* while attendance rows are corrected in place
NextFrame ==
    \/ ParticipantStep
    \/ \E old \in attendance, sub \in OneSubject, s \in StatusInputs :
           UpdateAttendance(old, sub[1], sub[2], sub[3], s)

SpecFrame == InitFrame /\ [][NextFrame]_vars

\* the whole system
Init == InitLedger \/ InitGuest \/ InitMember

Next == NextLedger \/ NextGuest \/ NextMember \/ NextAdmin \/ NextConcurrent

Spec == Init /\ [][Next]_vars

\* ================================================================ claims
\* C1: after any sequence of completed attendance inserts, updates and
\* deletes, every guest's total_meetings is the number of its present rows.
C1_GuestTotalIsPresentCount ==
    \A g \in GuestIds : guests[g].total_meetings = GuestPresentCount(attendance, g)

\* C2: every pipeliner's is_eligible_for_membership equals
\* business_meetings_count >= 3 and charity_events_count >= 1, whichever
\* operation wrote the row last.
C2_FlagIsEligibilityOfCounters ==
    \A p \in ExistingPipeliners(pipeliners) :
        pipeliners[p].is_eligible_for_membership
            = (pipeliners[p].business_meetings_count >= 3
               /\ pipeliners[p].charity_events_count >= 1)

\* C3: when promoteGuestToPipeliner surfaces the error of a failed guest
\* update, the guest is still active and the Pipeliner row the attempt
\* inserted is gone.
C3_FailedGuestUpdateLeavesNoPipeliner ==
    [][\A c \in Callers :
          (/\ call[c].op = "promoteGuest" /\ call[c].pc = "compensate"
           /\ guests[call[c].id].status = "active"
           /\ call'[c].op = "idle")
          => /\ guests'[call[c].id].status = "active"
             /\ pipeliners'[call[c].inserted].status = "absent"]_vars

\* C4: when promotePipelinerToMember surfaces the error of a failed pipeliner
\* update, the Member row it inserted has been deleted and the pipeliner's
\* status is unchanged.
C4_FailedPipelinerUpdateLeavesNoMember ==
    [][\A c \in Callers :
          (/\ call[c].op = "promoteMember" /\ call[c].pc = "compensate"
           /\ call'[c].op = "idle")
          => /\ members'[call[c].inserted].status = "absent"
             /\ pipeliners'[call[c].id].status = pipeliners[call[c].id].status]_vars

\* C5: once two concurrent attendance writes have both committed, the stored
\* counters of every guest and pipeliner equal the ledger's present counts.
C5_CommittedCountersAreCurrent ==
    (\A c \in Callers : tx[c].pc = "idle") =>
        /\ \A g \in GuestIds :
               guests[g].total_meetings = GuestPresentCount(attendance, g)
        /\ \A p \in ExistingPipeliners(pipeliners) :
               /\ pipeliners[p].business_meetings_count
                      = PipelinerPresentCount(attendance, p)
               /\ pipeliners[p].is_eligible_for_membership
                      = (PipelinerPresentCount(attendance, p) >= 3
                         /\ PipelinerCharityCount(charity_events, p) >= 1)

\* C6: of two overlapping promotePipelinerToMember calls on the same
\* pipeliner, both started from a cache showing it not yet promoted, at most
\* one succeeds: they are never both past their two writes.
C6_OverlappingPromotionsNotBothDone ==
    \A c1, c2 \in Callers :
        (/\ c1 # c2
         /\ call[c1].op = "promoteMember" /\ call[c2].op = "promoteMember"
         /\ call[c1].id = call[c2].id
         /\ call[c1].pipeliner.status = "active"
         /\ call[c2].pipeliner.status = "active")
        => ~(call[c1].pc = "fetch" /\ call[c2].pc = "fetch")

\* C7: of two overlapping promoteGuestToPipeliner calls on the same guest at
\* most one succeeds: they are never both past their two writes.
C7_OverlappingGuestPromotionsNotBothDone ==
    \A c1, c2 \in Callers :
        (/\ c1 # c2
         /\ call[c1].op = "promoteGuest" /\ call[c2].op = "promoteGuest"
         /\ call[c1].id = call[c2].id)
        => ~(call[c1].pc = "done" /\ call[c2].pc = "done")

\* C8: once P is became_member in the store and in the hook's refreshed
\* state, no later promotePipelinerToMember call on P creates a Member row.
C8_NoMemberFromPromotedPipeliner ==
    [][\A c \in Callers :
          (/\ call[c].op = "promoteMember" /\ call[c].pc = "insert"
           /\ call[c].pipeliner.status = "became_member"
           /\ pipeliners[call[c].id].status = "became_member")
          => call'[c].pc # "update"]_vars

\* C9: promoteGuestToPipeliner inserts a Pipeliner row only for a guest that
\* is active and satisfies guestEligibleForPipeliner on the current counters
\* (the operation takes no override).
C9_PipelinerInsertedOnlyForEligibleGuest ==
    [][\A c \in Callers :
          (/\ call[c].op = "promoteGuest" /\ call[c].pc = "insert"
           /\ call'[c].pc = "update")
          => /\ guests[call[c].id].status = "active"
             /\ GuestPresentCount(attendance, call[c].id) >= 3
             /\ guest_events[call[c].id] >= 1]_vars

\* C10: promotePipelinerToMember goes on to its first write only if the hook
\* knows the pipeliner, the gate holds, the pipeliner has an e-mail address,
\* and member number and join date are given; a rejected call leaves
\* members, pipeliners and promotingId as they were.
C10_RejectedBeforeAnyWrite ==
    [][\A c \in Callers :
          /\ (call[c].op = "idle" /\ call'[c].op = "promoteMember")
             => LET p == cache[c][call'[c].id]
                IN /\ p.status # "absent"
                   /\ \/ (p.business_meetings_count >= 3 /\ p.charity_events_count >= 1)
                      \/ p.is_eligible_for_membership
                   /\ p.email # Null
                   /\ call'[c].member_number \notin {Null, Blank}
                   /\ call'[c].join_date # Null
                   /\ call'[c].pc = "insert"
          /\ (/\ result' # result
              /\ result'.caller = c /\ result'.op = "promoteMember"
              /\ result'.outcome = "rejected")
             => /\ call[c].op = "idle"
                /\ UNCHANGED <<members, pipeliners, promotingId, call>>]_vars

\* a call was rejected for the missing e-mail address alone
C10_Witness ==
    /\ result.op = "promoteMember" /\ result.outcome = "rejected"
    /\ result.error = "email"

\* C11: whenever no operation is under way, every pipeliner's
\* business_meetings_count is the number of its present attendance rows and
\* its charity_events_count the number of charity events it takes part in.
C11_PipelinerCountersMatchLedgers ==
    (\A c \in Callers : call[c].op = "idle") =>
        \A p \in ExistingPipeliners(pipeliners) :
            /\ pipeliners[p].business_meetings_count = PipelinerPresentCount(attendance, p)
            /\ pipeliners[p].charity_events_count = PipelinerCharityCount(charity_events, p)

\* C12: an UPDATE of an attendance row that changes its subject leaves the
\* counters of the old and of the new subject equal to their ledger counts.
C12_ReassignmentRecomputesBothSubjects ==
    [][\A old \in attendance \ attendance', new \in attendance' \ attendance :
          (/\ meetings' = meetings
           /\ Cardinality(attendance') = Cardinality(attendance)
           /\ <<old.guest_id, old.pipeliner_id>> # <<new.guest_id, new.pipeliner_id>>)
          => /\ \A g \in ({old.guest_id, new.guest_id} \ {Null}) :
                    guests'[g].total_meetings = GuestPresentCount(attendance', g)
             /\ \A p \in ({old.pipeliner_id, new.pipeliner_id} \ {Null}) :
                    /\ pipeliners'[p].business_meetings_count
                           = PipelinerPresentCount(attendance', p)
                    /\ pipeliners'[p].is_eligible_for_membership
                           = EligibleFromCounts(PipelinerPresentCount(attendance', p),
                                                PipelinerCharityCount(charity_events', p))]_vars

\* C13: deleting a meeting removes all its attendance rows; every guest and
\* pipeliner that was present in it then has counters equal to its remaining
\* rows, and such a pipeliner with fewer than 3 present rows is not flagged
\* eligible.
C13_MeetingDeleteRecomputes ==
    [][\A m \in meetings \ meetings' :
          /\ \A r \in attendance' : r.meeting_id # m
          /\ \A r \in attendance :
                (r.meeting_id = m /\ r.status = "present") =>
                    /\ r.guest_id # Null =>
                          guests'[r.guest_id].total_meetings
                              = GuestPresentCount(attendance', r.guest_id)
                    /\ r.pipeliner_id # Null =>
                          LET p == pipeliners'[r.pipeliner_id]
                          IN /\ p.business_meetings_count
                                    = PipelinerPresentCount(attendance', r.pipeliner_id)
                             /\ p.charity_events_count
                                    = PipelinerCharityCount(charity_events', r.pipeliner_id)
                             /\ p.business_meetings_count < 3
                                    => p.is_eligible_for_membership = FALSE]_vars

\* meeting 1 is gone: pipeliner 1, still in the charity event, is left with
\* its present rows of meetings 2 and 3 and is no longer flagged, guest 1 is
\* left with its row of meeting 2
C13_Witness ==
    /\ meetings = MeetingIds \ {1}
    /\ attendance =
           {AttendanceRow(m, Null, Null, 1, "present") : m \in {2, 3}}
           \cup {AttendanceRow(2, Null, 1, Null, "present")}
    /\ charity_events[1].participant_ids = {1}
    /\ pipeliners[1].business_meetings_count = 2
    /\ pipeliners[1].charity_events_count = 1
    /\ pipeliners[1].is_eligible_for_membership = FALSE
    /\ guests[1].total_meetings = 1

\* C14: after an insert, update or delete of a charity event, every pipeliner
\* in its old or new participant_ids has charity_events_count equal to the
\* number of events that contain it, and its flag recomputed from that count.
C14_CharityWriteRecomputesParticipants ==
    [][\A e \in EventIds :
          charity_events'[e] # charity_events[e] =>
              \A p \in (charity_events[e].participant_ids
                        \cup charity_events'[e].participant_ids) :
                  /\ pipeliners'[p].charity_events_count
                         = PipelinerCharityCount(charity_events', p)
                  /\ pipeliners'[p].is_eligible_for_membership
                         = (PipelinerPresentCount(attendance', p) >= 3
                            /\ PipelinerCharityCount(charity_events', p) >= 1)]_vars

\* the charity event has been deleted: pipeliner 1, which was flagged with
\* its three present rows and one event, now counts no event and is not
\* flagged
C14_Witness ==
    /\ ~charity_events[1].exists
    /\ PipelinerPresentCount(attendance, 1) = 3
    /\ pipeliners[1].business_meetings_count = 3
    /\ pipeliners[1].charity_events_count = 0
    /\ pipeliners[1].is_eligible_for_membership = FALSE

\* C15: running refresh_guest_meeting_count or refresh_pipeliner_eligibility
\* a second time on unchanged attendance and charity_events tables leaves
\* every counter and the flag as the first run left them.
C15_RefreshIsIdempotent ==
    /\ \A g \in GuestIds :
           LET once == refresh_guest_meeting_count(attendance, guests, g)
           IN refresh_guest_meeting_count(attendance, once, g) = once
    /\ \A p \in PipelinerIds :
           LET once == refresh_pipeliner_eligibility(attendance, charity_events,
                                                     pipeliners, p)
           IN refresh_pipeliner_eligibility(attendance, charity_events, once, p) = once

\* a guest and a pipeliner whose stored counters are stale, so that the first
\* run of either function changes the row
C15_Witness ==
    /\ \E g \in GuestIds :
           /\ GuestPresentCount(attendance, g) > 0
           /\ refresh_guest_meeting_count(attendance, guests, g) # guests
    /\ \E p \in PipelinerIds :
           refresh_pipeliner_eligibility(attendance, charity_events, pipeliners, p)
               # pipeliners

\* C16: a guest is treated as eligible for promotion, by the view's
\* eligible_for_pipeliner column and by the dialog's eligible flag, exactly
\* when its present count is at least 3 and its event count at least 1.
C16_GuestEligibleIffThreePresentAndOneEvent ==
    \A g \in GuestIds :
        LET guest == GuestView(g)
            expected == guest.present_count >= 3 /\ guest.event_count >= 1
        IN /\ guest.eligible_for_pipeliner = expected
           /\ DialogEligible(guest) = expected

\* C17: whenever no promotion call is executing, also after a caller
\* abandoned one between its two writes, every Member row created by a
\* promotion belongs to a became_member pipeliner and every Pipeliner row
\* created by a promotion to a guest that is no longer active.
C17_NoHalfPromotionAtRest ==
    (\A c \in Callers : call[c].op = "idle") =>
        /\ \A m \in ExistingMembers(members) :
               members[m].from_pipeliner # Null =>
                   pipeliners[members[m].from_pipeliner].status = "became_member"
        /\ \A p \in ExistingPipeliners(pipeliners) :
               pipeliners[p].from_guest # Null =>
                   guests[pipeliners[p].from_guest].status # "active"

\* C19: a pipeliner whose status is became_member is never flagged eligible,
\* also after later attendance or charity-event writes that name it.
C19_BecameMemberIsNotFlagged ==
    \A p \in ExistingPipeliners(pipeliners) :
        pipeliners[p].status = "became_member" =>
            pipeliners[p].is_eligible_for_membership = FALSE

\* C18: after promotePipelinerToMember surfaced a store failure, the same
\* call made again is not stopped by a Member row the failed attempt left
\* behind.
C18_RetryNotBlockedByLeftover ==
    [][\A c \in Callers :
          (/\ call[c].op = "promoteMember" /\ call[c].pc = "insert"
           /\ result = Outcome(c, "promoteMember", call[c].id, "failed", "store")
           /\ pipeliners[call[c].id].status = "active"
           /\ \E m \in ExistingMembers(members) :
                  /\ members[m].from_pipeliner = call[c].id
                  /\ members[m].email = call[c].pipeliner.email
                  /\ members[m].member_number = trim(call[c].member_number))
          => ~(call'[c].op = "idle" /\ result'.error = "unique")]_vars

\* C20: a successful promoteGuestToPipeliner creates exactly one Pipeliner,
\* with the guest's contact data, status active, guest_meetings_count =
\* max(the guest's present count, 3), business_meetings_count = the guest's
\* present count, charity_events_count = 0 and the flag false, and makes the
\* guest became_pipeliner with total_meetings at least its present count.
C20_PromotedPipelinerIsSeededFromPresentCount ==
    [][\A c \in Callers :
          LET g == call[c].id
              present == GuestPresentCount(attendance, g)
          IN /\ (/\ call[c].op = "promoteGuest" /\ call[c].pc = "insert"
                 /\ call'[c].pc = "update")
                => /\ ExistingPipeliners(pipeliners')
                          = ExistingPipeliners(pipeliners) \cup {call'[c].inserted}
                   /\ call'[c].inserted \notin ExistingPipeliners(pipeliners)
                   /\ pipeliners'[call'[c].inserted] =
                          [status |-> "active", email |-> guests[g].email,
                           guest_meetings_count |-> Max(present, 3),
                           business_meetings_count |-> present,
                           charity_events_count |-> 0,
                           is_eligible_for_membership |-> FALSE,
                           from_guest |-> g]
             /\ (/\ call[c].op = "promoteGuest" /\ call[c].pc = "update"
                 /\ call'[c].pc = "done")
                => /\ guests'[g].status = "became_pipeliner"
                   /\ guests'[g].total_meetings >= present]_vars

\* C21: an administrative edit of a pipeliner (updatePipeliner) leaves its
\* business_meetings_count, charity_events_count and
\* is_eligible_for_membership as they were.
C21_EditLeavesDerivedFieldsAlone ==
    [][\A p \in ExistingPipeliners(pipeliners) :
          (/\ UNCHANGED <<meetings, attendance, charity_events, members>>
           /\ pipeliners'[p] # pipeliners[p])
          => /\ pipeliners'[p].business_meetings_count
                    = pipeliners[p].business_meetings_count
             /\ pipeliners'[p].charity_events_count
                    = pipeliners[p].charity_events_count
             /\ pipeliners'[p].is_eligible_for_membership
                    = pipeliners[p].is_eligible_for_membership]_vars

\* C22: when promotePipelinerToMember rejects a pipeliner for the eligibility
\* gate, the error asks for 3 - count more business meetings iff the count
\* the gate used is below 3 and for 1 - count more charity events iff that
\* count is below 1, and it names at least one of them.
C22_RejectionNamesUnmetRequirements ==
    [][(/\ result' # result
        /\ result'.op = "promoteMember" /\ result'.error = "not_eligible")
       => LET p == cache[result'.caller][result'.id]
              b == p.business_meetings_count
              ch == p.charity_events_count
          IN /\ result'.missing.business = (IF b < 3 THEN 3 - b ELSE 0)
             /\ result'.missing.charity = (IF ch < 1 THEN 1 - ch ELSE 0)
             /\ result'.missing # NoMissing]_vars

\* a rejection that asks for one more business meeting and one more charity
\* event
C22_Witness ==
    /\ result.op = "promoteMember" /\ result.outcome = "rejected"
    /\ result.error = "not_eligible"
    /\ result.missing = [business |-> 1, charity |-> 1]

\* C23: every attendance row the store holds has exactly one of member_id,
\* guest_id and pipeliner_id set.
C23_ExactlyOneSubject ==
    \A r \in attendance :
        Cardinality({k \in {"member_id", "guest_id", "pipeliner_id"} : r[k] # Null}) = 1

\* C24: for every active pipeliner each promotion gate of the code
\* (meetsRequirements, the dialog's eligible, the attendance item's eligible)
\* is true exactly when business_meetings_count >= 3 and
\* charity_events_count >= 1.
C24_GatesAgreeWithCounters ==
    \A p \in ExistingPipeliners(pipeliners) :
        pipeliners[p].status = "active" =>
            LET row == FetchedPipeliners[p]
                expected == /\ row.business_meetings_count >= 3
                            /\ row.charity_events_count >= 1
            IN /\ meetsRequirements(row) = expected
               /\ PromoteDialogEligible(row) = expected
               /\ AttendanceItemEligible(row) = expected

\* C25: promotePipelinerToMember inserts a Member only if the pipeliner's
\* stored row satisfies the eligibility gate at the moment of the insert.
C25_InsertOnlyWhileStoredRowEligible ==
    [][\A c \in Callers :
          (/\ call[c].op = "promoteMember" /\ call[c].pc = "insert"
           /\ call'[c].pc = "update")
          => LET row == pipeliners[call[c].id]
             IN \/ /\ row.business_meetings_count >= 3
                   /\ row.charity_events_count >= 1
                \/ row.is_eligible_for_membership]_vars

\* C26: for every pipeliner the values the pipeliner_eligibility view computes
\* (meeting_count, charity_event_count, meets_requirements) equal the values
\* stored on the row.
C26_ViewEqualsStoredFields ==
    \A p \in ExistingPipeliners(pipeliners) :
        LET row == PipelinerView(p)
        IN /\ row.meeting_count = row.business_meetings_count
           /\ row.charity_event_count = row.charity_events_count
           /\ row.meets_requirements = row.is_eligible_for_membership

\* C27: every charity event written through createEvent or updateEvent has
\* participant_ids without a duplicate id, equal as a set to the union of the
\* submitted member ids and pipeliner ids, and null when that union is empty.
C27_ParticipantIdsAreTheSubmittedSet ==
    result.op \in {"createEvent", "updateEvent"} =>
        LET written == result.payload.participant_ids
            submitted == (Elements(result.values.participant_member_ids)
                          \cup Elements(result.values.participant_pipeliner_ids))
                         \ {Blank}
        IN /\ \A i, j \in 1..Len(OrEmpty(written)) :
                  OrEmpty(written)[i] = OrEmpty(written)[j] => i = j
           /\ Elements(written) = submitted
           /\ written.is_null <=> submitted = {}
           /\ (result.outcome = "done" /\ charity_events[result.id].exists) =>
                  charity_events[result.id].participant_ids = submitted

\* pipeliner 2 was picked twice and member 1 once: the event is stored with
\* the two ids, each once
C27_Witness ==
    /\ result.op = "createEvent"
    /\ result.values.participant_pipeliner_ids = ArrayOf(<<2, 2>>)
    /\ result.values.participant_member_ids = ArrayOf(<<MemberUuid(1)>>)
    /\ result.payload.participant_ids = ArrayOf(<<MemberUuid(1), 2>>)
    /\ charity_events[result.id].participant_ids = {MemberUuid(1), 2}

\* C28: for every month and every database state fetchMembershipStats
\* returns meetingAttendanceCount <= activeMembers, an attendanceRate
\* (meetingAttendancePercentage) between 0 and 100, and the rate 0 when there
\* is no active member or no meeting in the month.
C28_AttendanceRateIsAPercentage ==
    result.op = "fetchMembershipStats" =>
        /\ result.stats.meetingAttendanceCount <= result.stats.activeMembers
        /\ result.stats.attendanceRate >= 0
        /\ result.stats.attendanceRate <= 100 * 100
        /\ result.stats.meetingAttendancePercentage = result.stats.attendanceRate
        /\ (\/ result.stats.activeMembers = 0
            \/ {m \in meetings : MeetingMonth(m) = result.month} = {})
               => result.stats.attendanceRate = 0

\* C29: backupAllData, then a successful clearAllData, then importFromBackup
\* of that backup leaves members, meetings, guests, pipeliners,
\* charity_events and attendance exactly as the rows that were backed up,
\* derived counters and eligibility flags included.
C29_RestoreReturnsTheBackup ==
    [][(/\ result.op = "clearAllData"
        /\ result.outcome = "done"
        /\ result'.op = "importFromBackup")
       => BackupPayload' = result.payload]_vars

\* C30: an insert, update or delete of a charity event changes derived
\* fields only, and only of pipeliners whose id is in the event's old or new
\* participant_ids; every other pipeliner and all guests, members, meetings
\* and attendance rows stay as they were, also when participant_ids contain
\* member ids.
C30_CharityWriteTouchesParticipantsOnly ==
    [][\A e \in EventIds :
          charity_events'[e] # charity_events[e] =>
              /\ \A p \in PipelinerIds :
                     /\ p \notin (charity_events[e].participant_ids
                                  \cup charity_events'[e].participant_ids)
                            => pipeliners'[p] = pipeliners[p]
                     /\ pipeliners'[p] =
                            [pipeliners[p] EXCEPT
                                !.business_meetings_count =
                                    pipeliners'[p].business_meetings_count,
                                !.charity_events_count =
                                    pipeliners'[p].charity_events_count,
                                !.is_eligible_for_membership =
                                    pipeliners'[p].is_eligible_for_membership]
              /\ guests' = guests
              /\ guest_events' = guest_events
              /\ members' = members
              /\ meetings' = meetings
              /\ attendance' = attendance]_vars

\* the event names pipeliner 1 and member 1: pipeliner 1 counts it, and
\* pipeliner 2, not a participant, still carries the count of one that no
\* attendance row supports
C30_Witness ==
    /\ charity_events[1].exists
    /\ charity_events[1].participant_ids = {1, MemberUuid(1)}
    /\ pipeliners[1].charity_events_count = 1
    /\ PipelinerPresentCount(attendance, 2) = 0
    /\ pipeliners[2].business_meetings_count = 1

====
